---------------------------- MODULE Spec2Model ----------------------------
(***************************************************************************)
(* TranscriptionManager (src/src/managers/TranscriptionManager.py) as a    *)
(* state machine.                                                          *)
(*                                                                         *)
(* Scheduling.  transcribe, on_video_changed, add_transcription_listener   *)
(* and notify_listeners run on one asyncio event loop: between two awaits  *)
(* a coroutine is not interleaved with other event-loop code.  `running`   *)
(* names the task that currently owns the loop (0: the loop is idle), so   *)
(* the statements between two awaits are separate steps that only the      *)
(* loader thread can interleave with.  The loader worker (load_model) is a *)
(* real thread and steps at any time.  The inference call and the wait on  *)
(* the readiness event run in executor threads (asyncio.to_thread); their  *)
(* return is the step that resumes the awaiting task.  asyncio.create_task  *)
(* runs the new coroutine up to its first await (line 52) before any other *)
(* suspended coroutine resumes with the event set; that first stretch      *)
(* touches no shared state, so a task is created already awaiting the      *)
(* readiness event.  Under Spec and FairSpec transcribe is only called     *)
(* from on_video_changed; DirectSpec adds direct calls of transcribe.       *)
(***************************************************************************)
EXTENDS Integers, Sequences, FiniteSets, TLC

\* ------------------------------------------------------------------ bounds
\* on_video_changed calls made in one run (each creates one task)
MaxTasks == 3
\* entries of the listener registry
MaxListeners == 2
\* on_video_changed calls made in the runs checked under fairness
MaxFairTasks == 2
\* transcribe tasks in the runs that also call transcribe directly
MaxDirectTasks == 2
\* MPV instances a MediaPlayer constructs
MaxPlayers == 2
\* subtitle files added to one media file
MaxSubs == 2

\* audio paths handed to on_video_changed
Paths == {"a.mp4", "b.mp4"}
\* callbacks handed to add_transcription_listener
Callbacks == {"f", "g"}

VARIABLES
    model,                    \* self._model: "None" or "loaded"
    model_loaded_event,       \* self._model_loaded_event (threading.Event)
    loader,                   \* position of the load_model worker thread
    model_lock,               \* self._model_lock: 0 free, else the holding task
    transcription_listeners,  \* self._transcription_listeners
    current_audio_path,       \* self._current_audio_path ("None" at first)
    tasks,                    \* the transcribe coroutines, in creation order
    running,                  \* task owning the event loop, 0 when idle
    notifier,                 \* task of the latest notify_listeners call, 0 if none
    invoked,                  \* listeners called so far by that call, in order
    \* MediaPlayer (src/src/ui/MediaPlayer.py)
    player,                   \* self.player: 0 for None, else the MPV instance
    mpv_initialized,          \* self.mpv_initialized
    mpv,                      \* properties of the MPV instance self.player
    mp_created,               \* MPV instances constructed so far (line 60)
    mp_last,                  \* the MediaPlayer operation executed last
    mp_raised                 \* an exception left a MediaPlayer operation

\* the MediaPlayer widget; the TranscriptionManager never touches it
mpvars == <<player, mpv_initialized, mpv, mp_created, mp_last, mp_raised>>

\* the TranscriptionManager; the MediaPlayer never touches it
tmvars == <<model, model_loaded_event, loader, model_lock, transcription_listeners,
            current_audio_path, tasks, running, notifier, invoked>>

vars == <<model, model_loaded_event, loader, model_lock, transcription_listeners,
          current_audio_path, tasks, running, notifier, invoked,
          player, mpv_initialized, mpv, mp_created, mp_last, mp_raised>>

TaskIds == 1..MaxTasks

Exists(t) == t \in 1..Len(tasks)

\* position of task t in transcribe ("none": not created)
Pc(t) == IF Exists(t) THEN tasks[t].pc ELSE "none"

\* a fresh transcribe coroutine for audio_path
NewTask(audio_path) ==
    [audio_path |-> audio_path, pc |-> "awaiting_model", result |-> "none",
     changed |-> FALSE, early |-> FALSE]

\* properties of an MPV instance right after construction (lines 60-64);
\* also the value of mpv while self.player is None
FreshMpv ==
    [filename |-> "None", pause |-> FALSE, subs |-> <<>>,
     sub_visibility |-> FALSE, position |-> 0]

\* MediaPlayer.__init__ (lines 35-36)
MpInit ==
    /\ player = 0
    /\ mpv_initialized = FALSE
    /\ mpv = FreshMpv
    /\ mp_created = 0
    /\ mp_last = "init"
    /\ mp_raised = FALSE

Init ==
    /\ model = "None"
    /\ model_loaded_event = FALSE
    /\ loader = "loading"
    /\ model_lock = 0
    /\ transcription_listeners = <<>>
    /\ current_audio_path = "None"
    /\ tasks = <<>>
    /\ running = 0
    /\ notifier = 0
    /\ invoked = <<>>
    /\ MpInit

\* ------------------------------------------------------- load_model.worker
\* mutant of WorkerLoadOk: the loaded model is not stored in self._model
WorkerLoadOk_NotStored ==
    /\ loader = "loading"
    /\ loader' = "loaded"
    /\ UNCHANGED <<model, model_loaded_event, model_lock, transcription_listeners,
                   current_audio_path, tasks, running, notifier, invoked>>
    /\ UNCHANGED mpvars

\* line 28: whisper.load_model returns and the reference is stored
WorkerLoadOk ==
    /\ loader = "loading"
    /\ model' = "loaded"
    /\ loader' = "loaded"
    /\ UNCHANGED <<model_loaded_event, model_lock, transcription_listeners,
                   current_audio_path, tasks, running, notifier, invoked>>
    /\ UNCHANGED mpvars

\* line 28 raises: control enters the except branch, the reference stays None
WorkerLoadFail ==
    /\ loader = "loading"
    /\ loader' = "failed"
    /\ UNCHANGED <<model, model_loaded_event, model_lock, transcription_listeners,
                   current_audio_path, tasks, running, notifier, invoked>>
    /\ UNCHANGED mpvars

\* mutant of WorkerSetEvent: line 33 is missing, a failed load ends the
\* thread without setting the event
WorkerSetEvent_SuccessOnly ==
    /\ loader \in {"loaded", "failed"}
    /\ model_loaded_event' = (loader = "loaded")
    /\ loader' = IF loader = "loaded" THEN "finished" ELSE "raised"
    /\ UNCHANGED <<model, model_lock, transcription_listeners,
                   current_audio_path, tasks, running, notifier, invoked>>
    /\ UNCHANGED mpvars

\* line 30 (after success) or line 33 (after failure, then line 34 raises)
WorkerSetEvent ==
    /\ loader \in {"loaded", "failed"}
    /\ model_loaded_event' = TRUE
    /\ loader' = IF loader = "loaded" THEN "finished" ELSE "raised"
    /\ UNCHANGED <<model, model_lock, transcription_listeners,
                   current_audio_path, tasks, running, notifier, invoked>>
    /\ UNCHANGED mpvars

\* ------------------------------------------------------------ event loop
\* the loop is idle: a callback or a suspended coroutine may run
Idle == running = 0

Terminal == {"model_unavailable", "stale_exit", "done", "errored"}

\* the three suspension points of transcribe (lines 52, 57, 62)
Waiting(t) == Pc(t) \in {"awaiting_model", "waiting_lock", "running_inference"}

\* no task has evaluated the comparison of line 58 yet
NoCheck1Yet ==
    \A t \in 1..Len(tasks) :
        tasks[t].pc \in {"awaiting_model", "resumed", "acquiring",
                         "waiting_lock", "holding_lock", "model_unavailable"}

SetPc(t, pc) == [tasks EXCEPT ![t].pc = pc]

\* line 90
AddTranscriptionListener(l) ==
    /\ Idle
    /\ Len(transcription_listeners) < MaxListeners
    /\ transcription_listeners' = Append(transcription_listeners, l)
    /\ UNCHANGED <<model, model_loaded_event, loader, model_lock,
                   current_audio_path, tasks, running, notifier, invoked>>
    /\ UNCHANGED mpvars

\* mutant of OnVideoChanged: line 99 is missing, the path is not recorded
OnVideoChanged_NoRecord(p) ==
    /\ Idle
    /\ Len(tasks) < MaxTasks
    /\ tasks' = Append(tasks, NewTask(p))
    /\ UNCHANGED <<model, model_loaded_event, loader, model_lock, current_audio_path,
                   transcription_listeners, running, notifier, invoked>>
    /\ UNCHANGED mpvars

\* mutant of OnVideoChanged: the tasks in flight are cancelled before the new
\* one is started
OnVideoChanged_Cancels(p) ==
    /\ Idle
    /\ Len(tasks) < MaxTasks
    /\ current_audio_path' = p
    /\ tasks' = Append(
          [t \in 1..Len(tasks) |->
              IF tasks[t].pc \in Terminal
                THEN tasks[t]
                ELSE [tasks[t] EXCEPT !.pc = "stale_exit"]],
          NewTask(p))
    /\ model_lock' = 0
    /\ UNCHANGED <<model, model_loaded_event, loader,
                   transcription_listeners, running, notifier, invoked>>
    /\ UNCHANGED mpvars

\* lines 99-100: store the path, create the task (suspended at line 52).
\* The fields changed and early are history: changed records that
\* _current_audio_path took another value while the task was suspended, early
\* that the call following the task's own one named another path before any
\* task reached line 58.
OnVideoChanged(p) ==
    /\ Idle
    /\ Len(tasks) < MaxTasks
    /\ current_audio_path' = p
    /\ tasks' = Append(
          [t \in 1..Len(tasks) |->
              [tasks[t] EXCEPT
                 !.changed = @ \/ (Waiting(t) /\ p # current_audio_path),
                 !.early = @ \/ (t = Len(tasks) /\ NoCheck1Yet
                                   /\ p # tasks[t].audio_path)]],
          NewTask(p))
    /\ UNCHANGED <<model, model_loaded_event, loader, model_lock,
                   transcription_listeners, running, notifier, invoked>>
    /\ UNCHANGED mpvars

\* ---------------------------------------------------------------- transcribe
\* mutant of ModelMissing: lines 54-55 are missing
ModelMissing_Unchecked == FALSE

\* line 54
ModelMissing == model = "None"

\* mutant of LockFree: the lock is entered without looking at its holder
LockFree_Unguarded == TRUE

\* line 57: asyncio.Lock.acquire takes the lock at once only if it is free
LockFree == model_lock = 0

\* mutant of Stale: the comparison never finds the task superseded
Stale_Never(t) == FALSE

\* lines 58 and 65
Stale(t) == current_audio_path # tasks[t].audio_path

\* mutant of ExitLock: the lock is not released when the block is left
ExitLock_Keep(t) == model_lock

\* leaving the async with block of line 57 (return or raise): __aexit__ releases
ExitLock(t) == IF model_lock = t THEN 0 ELSE model_lock

\* mutant of WaitReturns: line 52 does not wait for the event
WaitReturns_NoWait(t) ==
    /\ Idle
    /\ Pc(t) = "awaiting_model"
    /\ tasks' = SetPc(t, "resumed")
    /\ running' = t
    /\ UNCHANGED <<model, model_loaded_event, loader, model_lock,
                   transcription_listeners, current_audio_path, notifier, invoked>>
    /\ UNCHANGED mpvars

\* line 52: Event.wait returns once the event is set; the coroutine resumes
WaitReturns(t) ==
    /\ Idle
    /\ Pc(t) = "awaiting_model"
    /\ model_loaded_event
    /\ tasks' = SetPc(t, "resumed")
    /\ running' = t
    /\ UNCHANGED <<model, model_loaded_event, loader, model_lock,
                   transcription_listeners, current_audio_path, notifier, invoked>>
    /\ UNCHANGED mpvars

\* lines 54-55
CheckModel(t) ==
    /\ running = t
    /\ Pc(t) = "resumed"
    /\ IF ModelMissing
         THEN /\ tasks' = SetPc(t, "model_unavailable")
              /\ running' = 0
         ELSE /\ tasks' = SetPc(t, "acquiring")
              /\ running' = t
    /\ UNCHANGED <<model, model_loaded_event, loader, model_lock,
                   transcription_listeners, current_audio_path, notifier, invoked>>
    /\ UNCHANGED mpvars

\* line 57: enter the lock, or suspend until it is released
Acquire(t) ==
    /\ running = t
    /\ Pc(t) = "acquiring"
    /\ IF LockFree
         THEN /\ model_lock' = t
              /\ tasks' = SetPc(t, "holding_lock")
              /\ running' = t
         ELSE /\ model_lock' = model_lock
              /\ tasks' = SetPc(t, "waiting_lock")
              /\ running' = 0
    /\ UNCHANGED <<model, model_loaded_event, loader, transcription_listeners,
                   current_audio_path, notifier, invoked>>
    /\ UNCHANGED mpvars

\* mutant of LockWake: the wake-up of a suspended acquire is lost
LockWake_Never(t) ==
    /\ FALSE
    /\ UNCHANGED vars

\* line 57: a suspended acquire completes after a release
LockWake(t) ==
    /\ Idle
    /\ Pc(t) = "waiting_lock"
    /\ LockFree
    /\ model_lock' = t
    /\ tasks' = SetPc(t, "holding_lock")
    /\ running' = t
    /\ UNCHANGED <<model, model_loaded_event, loader, transcription_listeners,
                   current_audio_path, notifier, invoked>>
    /\ UNCHANGED mpvars

\* mutant of Check1: lines 58-59 are missing, the inference always starts
Check1_Unchecked(t) ==
    /\ running = t
    /\ Pc(t) = "holding_lock"
    /\ tasks' = SetPc(t, "running_inference")
    /\ running' = 0
    /\ UNCHANGED <<model, model_loaded_event, loader, model_lock,
                   transcription_listeners, current_audio_path, notifier, invoked>>
    /\ UNCHANGED mpvars

\* lines 58-64: staleness check #1, then the inference is handed to a thread
Check1(t) ==
    /\ running = t
    /\ Pc(t) = "holding_lock"
    /\ IF Stale(t)
         THEN /\ tasks' = SetPc(t, "stale_exit")
              /\ model_lock' = ExitLock(t)
         ELSE /\ tasks' = SetPc(t, "running_inference")
              /\ model_lock' = model_lock
    /\ running' = 0
    /\ UNCHANGED <<model, model_loaded_event, loader, transcription_listeners,
                   current_audio_path, notifier, invoked>>
    /\ UNCHANGED mpvars

\* lines 62-64 return a transcription: the coroutine resumes at line 65
InferenceReturns(t) ==
    /\ Idle
    /\ Pc(t) = "running_inference"
    /\ tasks' = [tasks EXCEPT ![t].pc = "check2", ![t].result = "ok"]
    /\ running' = t
    /\ UNCHANGED <<model, model_loaded_event, loader, model_lock,
                   transcription_listeners, current_audio_path, notifier, invoked>>
    /\ UNCHANGED mpvars

\* mutant of InferenceRaises: the error path leaves without releasing the lock
InferenceRaises_NoRelease(t) ==
    /\ Idle
    /\ Pc(t) = "running_inference"
    /\ tasks' = [tasks EXCEPT ![t].pc = "errored", ![t].result = "raised"]
    /\ UNCHANGED <<model, model_loaded_event, loader, model_lock, transcription_listeners,
                   current_audio_path, running, notifier, invoked>>
    /\ UNCHANGED mpvars

\* mutant of InferenceRaises: a failed inference is tried again
InferenceRaises_Retry(t) ==
    /\ Idle
    /\ Pc(t) = "running_inference"
    /\ tasks' = [tasks EXCEPT ![t].pc = "holding_lock", ![t].result = "raised"]
    /\ running' = t
    /\ UNCHANGED <<model, model_loaded_event, loader, model_lock,
                   transcription_listeners, current_audio_path, notifier, invoked>>
    /\ UNCHANGED mpvars

\* lines 62-64 raise: lines 69-71 re-raise RuntimeError("Transcription failed")
InferenceRaises(t) ==
    /\ Idle
    /\ Pc(t) = "running_inference"
    /\ tasks' = [tasks EXCEPT ![t].pc = "errored", ![t].result = "raised"]
    /\ model_lock' = ExitLock(t)
    /\ UNCHANGED <<model, model_loaded_event, loader, transcription_listeners,
                   current_audio_path, running, notifier, invoked>>
    /\ UNCHANGED mpvars

\* mutant of Check2: lines 65-66 are missing, the result is always notified
Check2_Unchecked(t) ==
    /\ running = t
    /\ Pc(t) = "check2"
    /\ tasks' = SetPc(t, "notifying")
    /\ notifier' = t
    /\ invoked' = <<>>
    /\ UNCHANGED <<model, model_loaded_event, loader, model_lock,
                   transcription_listeners, current_audio_path, running>>
    /\ UNCHANGED mpvars

\* lines 65-68: staleness check #2, then notify_listeners is entered
Check2(t) ==
    /\ running = t
    /\ Pc(t) = "check2"
    /\ IF Stale(t)
         THEN /\ tasks' = SetPc(t, "stale_exit")
              /\ model_lock' = ExitLock(t)
              /\ running' = 0
              /\ UNCHANGED <<notifier, invoked>>
         ELSE /\ tasks' = SetPc(t, "notifying")
              /\ model_lock' = model_lock
              /\ running' = t
              /\ notifier' = t
              /\ invoked' = <<>>
    /\ UNCHANGED <<model, model_loaded_event, loader, transcription_listeners,
                   current_audio_path>>
    /\ UNCHANGED mpvars

\* ---------------------------------------------------------- notify_listeners
\* mutant of NextListener: the registry is walked from its last entry
NextListener_Reversed ==
    transcription_listeners[Len(transcription_listeners) - Len(invoked)]

\* the registry entry the loop of line 80 reaches next
NextListener == transcription_listeners[Len(invoked) + 1]

\* lines 80-81: one iteration, the listener returns
ListenerReturns(t) ==
    /\ running = t
    /\ Pc(t) = "notifying"
    /\ Len(invoked) < Len(transcription_listeners)
    /\ invoked' = Append(invoked, NextListener)
    /\ UNCHANGED <<model, model_loaded_event, loader, model_lock,
                   transcription_listeners, current_audio_path, tasks, running,
                   notifier>>
    /\ UNCHANGED mpvars

\* mutant of ListenerRaises: notify_listeners catches the listener's
\* exception and goes on with the next listener
ListenerRaises_Isolated(t) ==
    /\ running = t
    /\ Pc(t) = "notifying"
    /\ Len(invoked) < Len(transcription_listeners)
    /\ invoked' = Append(invoked, NextListener)
    /\ UNCHANGED <<model, model_loaded_event, loader, model_lock,
                   transcription_listeners, current_audio_path, tasks, running,
                   notifier>>
    /\ UNCHANGED mpvars

\* lines 80-81: the listener raises; the except of line 69 catches it, line 71
\* raises RuntimeError("Transcription failed") and the lock is released
ListenerRaises(t) ==
    /\ running = t
    /\ Pc(t) = "notifying"
    /\ Len(invoked) < Len(transcription_listeners)
    /\ invoked' = Append(invoked, NextListener)
    /\ tasks' = SetPc(t, "errored")
    /\ model_lock' = ExitLock(t)
    /\ running' = 0
    /\ UNCHANGED <<model, model_loaded_event, loader, transcription_listeners,
                   current_audio_path, notifier>>
    /\ UNCHANGED mpvars

\* line 80: the loop is exhausted; transcribe returns and the lock is released
NotifyDone(t) ==
    /\ running = t
    /\ Pc(t) = "notifying"
    /\ Len(invoked) = Len(transcription_listeners)
    /\ tasks' = SetPc(t, "done")
    /\ model_lock' = ExitLock(t)
    /\ running' = 0
    /\ UNCHANGED <<model, model_loaded_event, loader, transcription_listeners,
                   current_audio_path, notifier, invoked>>
    /\ UNCHANGED mpvars

\* one step of the load_model worker thread
Worker == WorkerLoadOk \/ WorkerLoadFail \/ WorkerSetEvent

\* one step of the transcribe coroutine t
TaskStep(t) ==
    \/ WaitReturns(t)
    \/ CheckModel(t)
    \/ Acquire(t)
    \/ LockWake(t)
    \/ Check1(t)
    \/ InferenceReturns(t)
    \/ InferenceRaises(t)
    \/ Check2(t)
    \/ ListenerReturns(t)
    \/ ListenerRaises(t)
    \/ NotifyDone(t)

Next ==
    \/ WorkerLoadOk
    \/ WorkerLoadFail
    \/ WorkerSetEvent
    \/ \E l \in Callbacks : AddTranscriptionListener(l)
    \/ \E p \in Paths : OnVideoChanged(p)
    \/ \E t \in TaskIds : WaitReturns(t)
    \/ \E t \in TaskIds : CheckModel(t)
    \/ \E t \in TaskIds : Acquire(t)
    \/ \E t \in TaskIds : LockWake(t)
    \/ \E t \in TaskIds : Check1(t)
    \/ \E t \in TaskIds : InferenceReturns(t)
    \/ \E t \in TaskIds : InferenceRaises(t)
    \/ \E t \in TaskIds : Check2(t)
    \/ \E t \in TaskIds : ListenerReturns(t)
    \/ \E t \in TaskIds : ListenerRaises(t)
    \/ \E t \in TaskIds : NotifyDone(t)

Spec == Init /\ [][Next]_vars

\* The loader thread is scheduled by the OS and whisper.load_model returns or
\* raises; the event loop runs every coroutine that can resume, and a started
\* inference call returns or raises.
\* Next with the on_video_changed calls bounded by MaxFairTasks
FairNext ==
    \/ WorkerLoadOk
    \/ WorkerLoadFail
    \/ WorkerSetEvent
    \/ \E l \in Callbacks : AddTranscriptionListener(l)
    \/ \E p \in Paths : Len(tasks) < MaxFairTasks /\ OnVideoChanged(p)
    \/ \E t \in TaskIds : WaitReturns(t)
    \/ \E t \in TaskIds : CheckModel(t)
    \/ \E t \in TaskIds : Acquire(t)
    \/ \E t \in TaskIds : LockWake(t)
    \/ \E t \in TaskIds : Check1(t)
    \/ \E t \in TaskIds : InferenceReturns(t)
    \/ \E t \in TaskIds : InferenceRaises(t)
    \/ \E t \in TaskIds : Check2(t)
    \/ \E t \in TaskIds : ListenerReturns(t)
    \/ \E t \in TaskIds : ListenerRaises(t)
    \/ \E t \in TaskIds : NotifyDone(t)

FairSpec ==
    /\ Init /\ [][FairNext]_vars
    /\ WF_vars(Worker)
    /\ \A t \in TaskIds : WF_vars(TaskStep(t))

\* transcribe(audio_path) called directly (lines 40-52), not through
\* on_video_changed: a task is started, _current_audio_path is not written
Transcribe(p) ==
    /\ Idle
    /\ Len(tasks) < MaxDirectTasks
    /\ tasks' = Append(tasks, NewTask(p))
    /\ UNCHANGED <<model, model_loaded_event, loader, model_lock,
                   transcription_listeners, current_audio_path, running,
                   notifier, invoked>>
    /\ UNCHANGED mpvars

DirectNext ==
    \/ WorkerLoadOk
    \/ WorkerLoadFail
    \/ WorkerSetEvent
    \/ \E l \in Callbacks : AddTranscriptionListener(l)
    \/ \E p \in Paths : Len(tasks) < MaxDirectTasks /\ OnVideoChanged(p)
    \/ \E p \in Paths : Transcribe(p)
    \/ \E t \in TaskIds : WaitReturns(t)
    \/ \E t \in TaskIds : CheckModel(t)
    \/ \E t \in TaskIds : Acquire(t)
    \/ \E t \in TaskIds : LockWake(t)
    \/ \E t \in TaskIds : Check1(t)
    \/ \E t \in TaskIds : InferenceReturns(t)
    \/ \E t \in TaskIds : InferenceRaises(t)
    \/ \E t \in TaskIds : Check2(t)
    \/ \E t \in TaskIds : ListenerReturns(t)
    \/ \E t \in TaskIds : ListenerRaises(t)
    \/ \E t \in TaskIds : NotifyDone(t)

\* the TranscriptionManager with transcribe also called directly
DirectSpec == Init /\ [][DirectNext]_vars

\* ---------------------------------------------------------------- MediaPlayer
\* The widget's handlers run on the GUI thread, one at a time and to
\* completion, so each handler is one step.  mpv holds the properties of the
\* MPV instance that the handlers read and write; every call into the MPV
\* instance may raise, which the handlers catch and log.

\* os.path.exists: the files that exist; "None" is the empty path
VideoPaths == {"None", "missing.mp4", "a.mp4", "b.mp4"}
ExistingVideos == {"a.mp4", "b.mp4"}
SubtitlePaths == {"None", "missing.srt", "a.srt", "b.srt"}
ExistingSubtitles == {"a.srt", "b.srt"}
\* set_timestamp arguments, in milliseconds
Timestamps == {0, 1500}

CommandNames ==
    {"set_media", "set_subtitles_only", "play", "pause",
     "toggle_pause_state", "set_timestamp"}

\* _ensure_player_ready (lines 83-90)
EnsurePlayerReady == player # 0

\* the part of MediaPlayer state no command of the model writes
MpCommandFrame ==
    /\ mp_raised' = FALSE
    /\ UNCHANGED <<player, mpv_initialized, mp_created>>
    /\ UNCHANGED tmvars

\* body of _initialize_mpv (lines 50-72); ok: the MPV constructor returns
InitializeMpvBody(wid, ok) ==
    IF mpv_initialized \/ wid = 0
      THEN UNCHANGED <<player, mpv_initialized, mpv, mp_created>>
      ELSE IF ok
        THEN /\ mp_created < MaxPlayers
             /\ mp_created' = mp_created + 1
             /\ player' = mp_created + 1
             /\ mpv_initialized' = TRUE
             /\ mpv' = FreshMpv
        ELSE /\ player' = 0
             /\ mpv_initialized' = FALSE
             /\ mpv' = FreshMpv
             /\ UNCHANGED mp_created

\* _initialize_mpv called on its own (lines 46-72)
InitializeMpv(wid, ok) ==
    /\ InitializeMpvBody(wid, ok)
    /\ mp_last' = "_initialize_mpv"
    /\ mp_raised' = FALSE
    /\ UNCHANGED tmvars

\* showEvent (lines 74-81)
ShowEvent(visible, wid, ok) ==
    /\ IF ~mpv_initialized /\ visible
         THEN InitializeMpvBody(wid, ok)
         ELSE UNCHANGED <<player, mpv_initialized, mpv, mp_created>>
    /\ mp_last' = "showEvent"
    /\ mp_raised' = FALSE
    /\ UNCHANGED tmvars

\* mutant of CloseEvent: line 234 is missing, the flag is not reset
CloseEvent_KeepsFlag ==
    /\ player' = 0
    /\ mpv' = FreshMpv
    /\ mp_last' = "closeEvent"
    /\ mp_raised' = FALSE
    /\ UNCHANGED <<mpv_initialized, mp_created>>
    /\ UNCHANGED tmvars

\* closeEvent (lines 218-235); terminate may raise, the finally clause runs
\* either way
CloseEvent ==
    /\ IF player # 0
         THEN /\ player' = 0
              /\ mpv_initialized' = FALSE
              /\ mpv' = FreshMpv
         ELSE UNCHANGED <<player, mpv_initialized, mpv>>
    /\ mp_last' = "closeEvent"
    /\ mp_raised' = FALSE
    /\ UNCHANGED mp_created
    /\ UNCHANGED tmvars

\* a mutation of PauseOf: the no-media check of lines 170-172 is dropped
PauseOf_NoMediaCheck(m, ok) ==
    IF ~ok THEN m ELSE [m EXCEPT !.pause = TRUE]

\* effect of pause() on a ready player (lines 169-177)
PauseOf(m, ok) ==
    IF m.filename = "None" \/ ~ok THEN m ELSE [m EXCEPT !.pause = TRUE]

\* effect of set_subtitles_only on a ready player (lines 102-118);
\* ok: sub_add returns
SetSubtitlesOf(m, subtitle_path, ok) ==
    IF subtitle_path \notin ExistingSubtitles THEN m
    ELSE IF m.filename = "None" THEN m
    ELSE IF ~ok THEN PauseOf(m, TRUE)
    ELSE [PauseOf(m, TRUE) EXCEPT !.subs = Append(@, subtitle_path),
                                  !.sub_visibility = TRUE]

\* player.loadfile(video_path, mode='replace') (line 138)
LoadfileOf(m, video_path) ==
    [m EXCEPT !.filename = video_path, !.subs = <<>>, !.position = 0]

\* set_subtitles_only (lines 92-118)
SetSubtitlesOnly(subtitle_path, ok) ==
    /\ Len(mpv.subs) < MaxSubs
    /\ mpv' = IF EnsurePlayerReady
                THEN SetSubtitlesOf(mpv, subtitle_path, ok)
                ELSE mpv
    /\ mp_last' = "set_subtitles_only"
    /\ MpCommandFrame

\* set_media (lines 120-143); ok: loadfile returns, sub_ok: sub_add returns
SetMedia(video_path, subtitle_path, ok, sub_ok) ==
    /\ mpv' = IF ~EnsurePlayerReady \/ video_path \notin ExistingVideos
                THEN mpv
              ELSE IF ~ok
                THEN PauseOf(mpv, TRUE)
              ELSE IF subtitle_path # "None"
                THEN SetSubtitlesOf(LoadfileOf(PauseOf(mpv, TRUE), video_path),
                                    subtitle_path, sub_ok)
              ELSE LoadfileOf(PauseOf(mpv, TRUE), video_path)
    /\ mp_last' = "set_media"
    /\ MpCommandFrame

\* play (lines 145-160); ok: the property write returns
Play(ok) ==
    /\ mpv' = IF EnsurePlayerReady /\ mpv.filename # "None" /\ ok
                THEN [mpv EXCEPT !.pause = FALSE]
                ELSE mpv
    /\ mp_last' = "play"
    /\ MpCommandFrame

\* pause (lines 162-177)
Pause(ok) ==
    /\ mpv' = IF EnsurePlayerReady THEN PauseOf(mpv, ok) ELSE mpv
    /\ mp_last' = "pause"
    /\ MpCommandFrame

\* toggle_pause_state (lines 179-195)
TogglePauseState(ok) ==
    /\ mpv' = IF EnsurePlayerReady /\ mpv.filename # "None" /\ ok
                THEN [mpv EXCEPT !.pause = ~mpv.pause]
                ELSE mpv
    /\ mp_last' = "toggle_pause_state"
    /\ MpCommandFrame

\* set_timestamp (lines 197-216): seeks to timestamp / 1000.0 seconds;
\* position is kept in milliseconds
SetTimestamp(timestamp, ok) ==
    /\ mpv' = IF EnsurePlayerReady /\ mpv.filename # "None" /\ ok
                THEN [mpv EXCEPT !.position = timestamp]
                ELSE mpv
    /\ mp_last' = "set_timestamp"
    /\ MpCommandFrame

PlayerNext ==
    \/ \E wid \in {0, 1}, ok \in BOOLEAN : InitializeMpv(wid, ok)
    \/ \E visible \in BOOLEAN, wid \in {0, 1}, ok \in BOOLEAN :
          ShowEvent(visible, wid, ok)
    \/ CloseEvent
    \/ \E sp \in SubtitlePaths, ok \in BOOLEAN : SetSubtitlesOnly(sp, ok)
    \/ \E vp \in VideoPaths, sp \in SubtitlePaths, ok \in BOOLEAN,
          sub_ok \in BOOLEAN : SetMedia(vp, sp, ok, sub_ok)
    \/ \E ok \in BOOLEAN : Play(ok)
    \/ \E ok \in BOOLEAN : Pause(ok)
    \/ \E ok \in BOOLEAN : TogglePauseState(ok)
    \/ \E ts \in Timestamps, ok \in BOOLEAN : SetTimestamp(ts, ok)

\* the MediaPlayer alone: no TranscriptionManager step is taken
PlayerSpec == Init /\ [][PlayerNext]_vars

\* ------------------------------------------------------------------ claims
\* tasks inside self._model.transcribe (lines 62-64)
Inferring == {t \in 1..Len(tasks) : tasks[t].pc = "running_inference"}

\* C1: at most one task is inside the model inference call at any instant,
\* whatever the interleaving of on_video_changed calls and task steps.
C1_OneInference == Cardinality(Inferring) <= 1

\* C1 witness: one task is inside the inference call while another one, which
\* found the lock taken, is suspended on it.
C1_Witness ==
    \E t, u \in 1..Len(tasks) :
        /\ tasks[t].pc = "running_inference"
        /\ tasks[u].pc = "waiting_lock"
        /\ model_lock = t

\* a listener is called in this step (line 81)
ListenerCalled == Len(invoked') = Len(invoked) + 1

\* C2: in every step in which a task calls a listener (the first one or a
\* later one of the loop of line 80), that task is the one that entered
\* notify_listeners and its audio_path equals _current_audio_path.
C2_NotifyOnlyCurrent ==
    [][ListenerCalled =>
          /\ notifier \in 1..Len(tasks)
          /\ running = notifier
          /\ tasks[notifier].pc = "notifying"
          /\ tasks[notifier].audio_path = current_audio_path]_vars

\* C2 witness: a task has called the first listener and is about to call the
\* second one, after a task for another path was created and superseded.
C2_Witness ==
    \E t, u \in 1..Len(tasks) :
        /\ tasks[t].pc = "notifying"
        /\ Len(invoked) = 1
        /\ Len(transcription_listeners) = 2
        /\ tasks[u].audio_path # tasks[t].audio_path

\* task t has entered notify_listeners (line 68)
Notified(t) ==
    /\ tasks[t].result = "ok"
    /\ tasks[t].pc \in {"notifying", "done", "errored"}

\* a later on_video_changed call named the path of task t again
Restored(t) ==
    \E u \in (t + 1)..Len(tasks) : tasks[u].audio_path = tasks[t].audio_path

\* the load_model worker took the except branch (line 31)
LoadFailed == loader \in {"failed", "raised"}

C4_Original ==
    \A t \in 1..Len(tasks) :
        (tasks[t].early /\ model = "loaded" /\ tasks[t].result # "raised") =>
            /\ ~Notified(t)
            /\ tasks[t].pc \notin {"model_unavailable", "errored"}

\* C4 amended: in that situation, and provided no later on_video_changed call
\* names A again, the task created for A never starts the inference and never
\* enters notify_listeners; it returns at line 59 without raising, except that
\* it raises the RuntimeError of line 55 when the model load failed.
C4_EarlySupersededExits ==
    \A t \in 1..Len(tasks) :
        (tasks[t].early /\ ~Restored(t)) =>
            /\ tasks[t].result = "none"
            /\ tasks[t].pc \in {"awaiting_model", "resumed", "acquiring", "waiting_lock",
                                "holding_lock", "stale_exit", "model_unavailable"}
            /\ tasks[t].pc = "model_unavailable" => LoadFailed

\* C4 witness: A then B were announced before any task reached line 58, the
\* model loaded, and the task for A has returned at line 59.
C4_Witness ==
    \E t \in 1..Len(tasks) :
        /\ tasks[t].early
        /\ ~Restored(t)
        /\ model = "loaded"
        /\ tasks[t].pc = "stale_exit"

\* C5: once the model load has failed no task is past line 55: the lock is
\* free, no inference was started and notify_listeners was not entered; and
\* every task, whether its path is still current or not, ends with the
\* RuntimeError of line 55.
C5_LoadFailure ==
    /\ [](LoadFailed =>
            /\ model_lock = 0
            /\ notifier = 0
            /\ \A t \in 1..Len(tasks) :
                  /\ tasks[t].pc \in {"awaiting_model", "resumed", "model_unavailable"}
                  /\ tasks[t].result = "none")
    /\ \A t \in TaskIds :
          (LoadFailed /\ Exists(t)) ~> (Pc(t) = "model_unavailable")

\* C5 witness: the load failed; a superseded task and the task of the current
\* path have both ended with the RuntimeError of line 55.
C5_Witness ==
    /\ LoadFailed
    /\ \E t, u \in 1..Len(tasks) :
          /\ tasks[t].pc = "model_unavailable"
          /\ tasks[u].pc = "model_unavailable"
          /\ tasks[t].audio_path # current_audio_path
          /\ tasks[u].audio_path = current_audio_path

\* C6: the readiness event is eventually set, after a successful and after a
\* failed load; every task suspended on it eventually resumes from the wait
\* (it is then at line 54, the wait itself raised nothing); and the event,
\* once set, stays set.
C6_ReadinessSignal ==
    /\ <>model_loaded_event
    /\ \A t \in TaskIds : (Pc(t) = "awaiting_model") ~> (Pc(t) = "resumed")
    /\ [][model_loaded_event => model_loaded_event']_vars

\* C6 witness: the load failed, the event is set and a task has resumed from
\* the wait (it has not yet looked at the model reference).
C6_Witness ==
    /\ loader = "raised"
    /\ model_loaded_event
    /\ \E t \in 1..Len(tasks) : tasks[t].pc = "resumed"

\* C7: no task that has left transcribe (silent return at line 59 or 66,
\* normal return after the notification, RuntimeError of line 71) holds the
\* lock: the lock is free or held by a task still inside the async with block,
\* so a task suspended on the lock is only ever kept out by a task that has
\* not finished.
C7_LockReleased ==
    /\ \A t \in 1..Len(tasks) : tasks[t].pc \in Terminal => model_lock # t
    /\ model_lock # 0 =>
          /\ Exists(model_lock)
          /\ tasks[model_lock].pc \in
                {"holding_lock", "running_inference", "check2", "notifying"}
    /\ (Idle /\ \E t \in 1..Len(tasks) : tasks[t].pc = "waiting_lock") =>
          \/ model_lock = 0
          \/ tasks[model_lock].pc = "running_inference"

\* C7 witness: the lock is free after three tasks left the block on different
\* paths: the return of line 66, the RuntimeError of line 71 after an
\* inference error, and the normal return.
C7_Witness ==
    /\ model_lock = 0
    /\ \E t, u, v \in 1..Len(tasks) :
          /\ tasks[t].pc = "stale_exit" /\ tasks[t].result = "ok"
          /\ tasks[u].pc = "errored" /\ tasks[u].result = "raised"
          /\ tasks[v].pc = "done"

\* every task has left transcribe
AllEnded == Len(tasks) >= 1 /\ \A t \in 1..Len(tasks) : tasks[t].pc \in Terminal

\* the model loaded and no inference call raised
AllInferenceOk ==
    model = "loaded" /\ \A t \in 1..Len(tasks) : tasks[t].result # "raised"

\* C8 as stated: after any sequence of on_video_changed calls, with the model
\* loaded and every inference succeeding, once all tasks have ended exactly
\* one task has delivered a result: the task of the last call, and no earlier
\* one.
C8_Original ==
    (AllEnded /\ AllInferenceOk) =>
        /\ Notified(Len(tasks))
        /\ \A t \in 1..(Len(tasks) - 1) : ~Notified(t)

\* C8 amended: in that situation the task of the last call has delivered its
\* result; an earlier task has delivered nothing if the path was changed
\* between its creation and its end and no later call named its own path
\* again; an earlier task during whose life the path never changed has
\* delivered too (so more than one task may deliver).
C8_LastDelivers ==
    (AllEnded /\ AllInferenceOk) =>
        /\ Notified(Len(tasks))
        /\ \A t \in 1..(Len(tasks) - 1) :
              /\ (tasks[t].changed /\ ~Restored(t)) => ~Notified(t)
              /\ ~tasks[t].changed => Notified(t)

\* C8 witness: three calls, all tasks ended without an inference error; the
\* last task delivered and an earlier, superseded one did not.
C8_Witness ==
    /\ AllEnded
    /\ AllInferenceOk
    /\ Len(tasks) = 3
    /\ Notified(3)
    /\ \E t \in 1..2 : tasks[t].changed /\ ~Notified(t)

\* the notify_listeners call of the task notifier ends in this step
NotificationEnds ==
    /\ notifier \in 1..Len(tasks)
    /\ tasks[notifier].pc = "notifying"
    /\ tasks'[notifier].pc \in {"done", "errored"}

\* the registry is unchanged or has one more entry at its end
RegistryAppendOnly ==
    \/ transcription_listeners' = transcription_listeners
    \/ \E l \in Callbacks :
          transcription_listeners' = Append(transcription_listeners, l)

\* add_transcription_listener(l) can append l, also when l is registered
AddAppends ==
    \A l \in Callbacks :
        (Idle /\ Len(transcription_listeners) < MaxListeners) =>
            ENABLED (AddTranscriptionListener(l)
                       /\ transcription_listeners' = Append(transcription_listeners, l))

\* C9 as stated: whenever a notification ends, every registry entry has been
\* called exactly once, in registration order (so a callback registered k
\* times was called k times); the registry only grows at its end.
C9_Original ==
    /\ [][NotificationEnds => invoked' = transcription_listeners']_vars
    /\ [][RegistryAppendOnly]_vars

\* C9 amended: the listeners called for a result are always the registry
\* entries in registration order, one call per entry, up to the end of the
\* registry or up to the first listener that raises: a notification that
\* returns has called every entry once (a callback registered k times k
\* times), one that is ended by a raising listener has called the entries up
\* to and including that listener only.  add_transcription_listener appends
\* without deduplication, and the registry never shrinks or reorders.
C9_RegistrationOrder ==
    /\ [](/\ Len(invoked) <= Len(transcription_listeners)
          /\ invoked = SubSeq(transcription_listeners, 1, Len(invoked)))
    /\ [][(NotificationEnds /\ tasks'[notifier].pc = "done")
             => invoked' = transcription_listeners']_vars
    /\ [][(NotificationEnds /\ tasks'[notifier].pc = "errored")
             => Len(invoked') = Len(invoked) + 1]_vars
    /\ [][RegistryAppendOnly]_vars
    /\ []AddAppends

\* C9 witness: the same callback is registered twice and the running
\* notification has called it twice.
C9_Witness ==
    /\ notifier \in 1..Len(tasks)
    /\ tasks[notifier].pc = "notifying"
    /\ transcription_listeners = <<"f", "f">>
    /\ invoked = <<"f", "f">>

\* C10: a task whose inference call raised is in the errored state (the
\* RuntimeError of line 71), does not hold the lock and has never entered
\* notify_listeners; the step in which the call raises frees the lock and
\* changes neither _current_audio_path nor the registry nor the record of
\* listener calls.
C10_InferenceError ==
    /\ [](\A t \in 1..Len(tasks) :
             tasks[t].result = "raised" =>
                 /\ tasks[t].pc = "errored"
                 /\ model_lock # t
                 /\ notifier # t)
    /\ [][\A t \in 1..Len(tasks) :
             (tasks[t].pc = "running_inference" /\ tasks'[t].result = "raised") =>
                 /\ tasks'[t].pc = "errored"
                 /\ model_lock' = 0
                 /\ current_audio_path' = current_audio_path
                 /\ transcription_listeners' = transcription_listeners
                 /\ invoked' = invoked
                 /\ notifier' = notifier]_vars

\* C10 witness: the inference of one task raised and a task created later is
\* now inside the inference call.
C10_Witness ==
    \E t, u \in 1..Len(tasks) :
        /\ t < u
        /\ tasks[t].result = "raised"
        /\ tasks[t].pc = "errored"
        /\ tasks[u].pc = "running_inference"
        /\ model_lock = u

\* a MediaPlayer command is executed by this step
CommandIssued == mp_last' \in CommandNames

\* the step leaves the player and its pause flag, loaded file, subtitles and
\* position as they were, and no exception leaves the command
NoOp == mpv' = mpv /\ player' = player /\ ~mp_raised'

\* C11 as stated: every MediaPlayer command issued while the player is not
\* ready or while no media is loaded leaves the player state unchanged and
\* does not raise.  set_media on a ready player with no media loaded loads
\* the file.
C11_Original ==
    [][(CommandIssued /\ (~EnsurePlayerReady \/ mpv.filename = "None"))
          => NoOp]_vars

\* C11, amended: every MediaPlayer command issued while the player is not
\* ready is a no-op; play, pause, toggle_pause_state, set_timestamp and
\* set_subtitles_only issued while no media is loaded are no-ops; set_media
\* with an empty or non-existent video path is a no-op; no command raises.
C11_NotReadyNoOp ==
    [][/\ CommandIssued => ~mp_raised'
       /\ (CommandIssued /\ ~EnsurePlayerReady) => NoOp
       /\ (CommandIssued /\ mpv.filename = "None" /\ mp_last' # "set_media")
             => NoOp
       /\ \A vp \in VideoPaths \ ExistingVideos, sp \in SubtitlePaths,
             ok \in BOOLEAN, sub_ok \in BOOLEAN :
             SetMedia(vp, sp, ok, sub_ok) => NoOp]_vars

\* a command was executed after closeEvent released the player, and another
\* on a ready player with no media loaded
C11_Witness ==
    \/ mp_last \in CommandNames /\ ~EnsurePlayerReady /\ mp_created = 1
    \/ mp_last = "play" /\ EnsurePlayerReady /\ mpv.filename = "None"

\* task t executes check #1 (line 58) in this step and finds the current
\* path different from its own
StaleAtCheck1(t) ==
    /\ Exists(t)
    /\ running = t
    /\ Pc(t) = "holding_lock"
    /\ Stale(t)
    /\ tasks'[t] # tasks[t]

\* C12: a task that finds the current path different from its own at check
\* #1, a directly called one included, returns there: the lock is released,
\* no listener is invoked, it has no result, and it never starts inference
\* afterwards.
C12_StaleAtCheck1Exits ==
    [][\A t \in TaskIds :
          /\ StaleAtCheck1(t) =>
                /\ tasks'[t].pc = "stale_exit"
                /\ tasks'[t].result = "none"
                /\ model_lock' = 0
                /\ running' = 0
                /\ invoked' = invoked
                /\ notifier' = notifier
          /\ (Exists(t) /\ Pc(t) = "stale_exit") =>
                /\ tasks'[t].pc = "stale_exit"
                /\ tasks'[t].result = tasks[t].result]_vars

\* a directly called task for a path that on_video_changed never named left
\* at check #1 while the model was loaded
C12_Witness ==
    /\ current_audio_path = "None"
    /\ model = "loaded"
    /\ \E t \in TaskIds : Exists(t) /\ Pc(t) = "stale_exit"
                           /\ tasks[t].result = "none"
    /\ model_lock = 0

\* this step is an on_video_changed call (line 100 starts a task)
VideoChanged == Len(tasks') = Len(tasks) + 1 /\ current_audio_path' # "None"
                  /\ current_audio_path' = tasks'[Len(tasks')].audio_path

\* task t is past check #1 and its inference has not returned
InInference(t) == Exists(t) /\ Pc(t) = "running_inference"

LastAnnounced ==
    IF tasks = <<>> THEN "None" ELSE tasks[Len(tasks)].audio_path

\* C14: the current path always equals the argument of the most recent
\* on_video_changed call (None before the first); a step that writes it is
\* an on_video_changed call; each call leaves the earlier tasks in place and
\* adds exactly one fresh task for the path it recorded; no step of a
\* transcribe task, of notify_listeners or of the loader changes it.
C14_CurrentTargetWriter ==
    /\ [](current_audio_path = LastAnnounced)
    /\ [][/\ current_audio_path' # current_audio_path
                => Len(tasks') = Len(tasks) + 1
          /\ Len(tasks') \in {Len(tasks), Len(tasks) + 1}
          /\ Len(tasks') = Len(tasks) + 1 =>
                /\ tasks'[Len(tasks')] = NewTask(current_audio_path')
                /\ \A t \in 1..Len(tasks) :
                      /\ tasks'[t].audio_path = tasks[t].audio_path
                      /\ tasks'[t].pc = tasks[t].pc
          /\ (\/ loader' # loader
              \/ invoked' # invoked
              \/ \E t \in 1..Len(tasks) : tasks'[t].pc # tasks[t].pc)
                => current_audio_path' = current_audio_path]_vars

\* two calls were made, the second for another path, and tasks and loader
\* have run since
C14_Witness ==
    /\ Len(tasks) = 2
    /\ tasks[1].audio_path # tasks[2].audio_path
    /\ current_audio_path = tasks[2].audio_path
    /\ tasks[1].pc = "stale_exit"
    /\ tasks[2].pc = "done"
    /\ invoked # <<>>

\* task t has returned from the wait of line 52
PastWait(t) == Exists(t) /\ Pc(t) # "awaiting_model"

\* C15: the model reference is written at most once, by the loader worker
\* on a successful load and before the readiness event is set, and never
\* changes once the event is set; with the event set the reference is
\* populated exactly when the load succeeded; a task past the readiness wait
\* has the event set, and ends in ModelUnavailable only when the load failed.
C15_ModelWriteOnce ==
    /\ [](model_loaded_event => (model = "loaded" <=> loader = "finished"))
    /\ [](model = "loaded" => loader \in {"loaded", "finished"})
    /\ [](\A t \in TaskIds : PastWait(t) => model_loaded_event)
    /\ [](\A t \in TaskIds : Pc(t) = "model_unavailable" => loader = "raised")
    /\ [][/\ model' # model =>
                /\ model = "None" /\ model' = "loaded"
                /\ loader = "loading" /\ loader' = "loaded"
                /\ ~model_loaded_event /\ ~model_loaded_event'
                /\ tasks' = tasks
          /\ model_loaded_event => (model' = model /\ model_loaded_event')
          /\ model = "loaded" => model' = "loaded"]_vars

\* the load succeeded and a task passed the model check of lines 54-55
C15_Witness ==
    /\ model = "loaded" /\ model_loaded_event /\ loader = "finished"
    /\ \E t \in TaskIds : Pc(t) = "acquiring"

\* the moves of one transcribe task (lines 52-71)
Edges ==
    {<<"awaiting_model", "resumed">>,
     <<"resumed", "model_unavailable">>, <<"resumed", "acquiring">>,
     <<"acquiring", "holding_lock">>, <<"acquiring", "waiting_lock">>,
     <<"waiting_lock", "holding_lock">>,
     <<"holding_lock", "stale_exit">>, <<"holding_lock", "running_inference">>,
     <<"running_inference", "check2">>, <<"running_inference", "errored">>,
     <<"check2", "stale_exit">>, <<"check2", "notifying">>,
     <<"notifying", "done">>, <<"notifying", "errored">>}

\* task t is inside the async with block of line 57
InLockBlock(t) ==
    Pc(t) \in {"holding_lock", "running_inference", "check2", "notifying"}

\* C16: a task moves only along the state machine: it starts awaiting the
\* model and every change of position is one of the machine's moves; past
\* the wait the event is set; from the lock acquisition on the model is
\* loaded; inside the lock block the task holds the lock; inference starts
\* only from a passed check #1 with the lock held; notification starts only
\* from a passed check #2 with a result; a terminal task takes no step.
C16_StateMachine ==
    /\ [](\A t \in TaskIds :
            /\ PastWait(t) => model_loaded_event
            /\ (InLockBlock(t) \/ Pc(t) \in {"acquiring", "waiting_lock"})
                  => model = "loaded"
            /\ InLockBlock(t) => model_lock = t
            /\ Pc(t) \in {"check2", "notifying", "done"}
                  => tasks[t].result = "ok")
    /\ [][\A t \in TaskIds :
            /\ (~Exists(t) /\ t <= Len(tasks')) => tasks'[t].pc = "awaiting_model"
            /\ Exists(t) =>
                 /\ \/ tasks'[t].pc = tasks[t].pc
                    \/ <<tasks[t].pc, tasks'[t].pc>> \in Edges
                 /\ (Pc(t) # "running_inference"
                       /\ tasks'[t].pc = "running_inference")
                      => /\ Pc(t) = "holding_lock" /\ ~Stale(t)
                         /\ model_lock = t /\ model_lock' = t
                 /\ (Pc(t) # "notifying" /\ tasks'[t].pc = "notifying")
                      => /\ Pc(t) = "check2" /\ ~Stale(t)
                         /\ tasks[t].result = "ok"
                         /\ model_lock' = t
                 /\ Pc(t) \in Terminal =>
                      /\ tasks'[t].pc = tasks[t].pc
                      /\ tasks'[t].result = tasks[t].result
                      /\ running' # t
                      /\ model_lock' # t]_vars

\* three tasks ran through the machine: one ended as done, one as
\* stale-exit and one as errored
C16_Witness ==
    \E t, u, v \in TaskIds :
       /\ Pc(t) = "done" /\ Pc(u) = "stale_exit" /\ Pc(v) = "errored"

\* task t calls self._model.transcribe in this step (lines 62-64)
InvokesInference(t) ==
    Exists(t) /\ Pc(t) # "running_inference"
              /\ tasks'[t].pc = "running_inference"

\* C17: nothing is retried: a step adds at most one task, and only an
\* on_video_changed call adds one; a task invokes inference only while it
\* has no outcome yet, the end of an inference gives it an outcome, and an
\* outcome is never erased, so a task invokes inference at most once and
\* the invocations never outnumber the calls; a task that ended in
\* ModelUnavailable, TranscriptionFailed or stale-exit stays as it ended.
C17_NoRetry ==
    [][/\ Len(tasks') \in {Len(tasks), Len(tasks) + 1}
       /\ Len(tasks') = Len(tasks) + 1 =>
             /\ VideoChanged
             /\ \A t \in 1..Len(tasks) : tasks'[t].pc = tasks[t].pc
       /\ \A t \in TaskIds : Exists(t) =>
             /\ InvokesInference(t) => tasks[t].result = "none"
             /\ (Pc(t) = "running_inference"
                   /\ tasks'[t].pc # "running_inference")
                  => tasks'[t].result # "none"
             /\ tasks[t].result # "none"
                  => tasks'[t].result = tasks[t].result
             /\ Pc(t) \in Terminal =>
                  /\ tasks'[t].pc = tasks[t].pc
                  /\ ~InvokesInference(t)]_vars

\* one task left at a staleness check and the other's inference failed;
\* nothing is left in flight and no further inference was invoked
C17_Witness ==
    /\ Len(tasks) = 2
    /\ tasks[1].pc = "stale_exit"
    /\ tasks[2].pc = "errored" /\ tasks[2].result = "raised"
    /\ model_lock = 0 /\ running = 0

\* the load failed or an inference raised
Excused ==
    \/ LoadFailed
    \/ \E t \in 1..Len(tasks) : tasks[t].result = "raised"

\* the task of the n-th call made a notify_listeners call that reached every
\* registered listener
AllNotified(n) ==
    /\ Exists(n)
    /\ Notified(n) /\ Pc(n) \in {"done", "errored"}
    /\ notifier = n
    /\ tasks[n].audio_path = current_audio_path
    /\ invoked = transcription_listeners

\* the task of the n-th call made a notify_listeners call with a result for
\* the current path; the call returned after the last registered listener,
\* or the first listener that raised ended it
NotificationStarted(n) ==
    /\ Exists(n)
    /\ Notified(n) /\ Pc(n) \in {"done", "errored"}
    /\ notifier = n
    /\ tasks[n].audio_path = current_audio_path
    /\ Pc(n) = "done" => invoked = transcription_listeners
    /\ Pc(n) = "errored" => invoked # <<>>

\* C18 as stated: if the load succeeds, every inference returns and the
\* n-th call is the last one, then under fair scheduling every task ends and
\* the listeners are notified with a result for the last path.  A listener
\* that raises ends the notification before the listeners after it.
C18_Original ==
    \A n \in TaskIds :
       <>[](Len(tasks) = n /\ ~Excused)
          => (<>[]AllEnded /\ <>AllNotified(n))

\* C18, amended: under the same conditions every task ends, and the task of
\* the last call makes a notify_listeners call with a result for the last
\* path, which reaches every registered listener unless one of them raises;
\* then at least that listener was called and the task ends as failed.
C18_LastNotifies ==
    \A n \in TaskIds :
       <>[](Len(tasks) = n /\ ~Excused)
          => (<>[]AllEnded /\ <>NotificationStarted(n))

\* two calls for different paths, the model loaded, no inference raised:
\* both tasks ended and the second one notified both listeners
C18_Witness ==
    /\ Len(tasks) = 2 /\ ~Excused /\ AllEnded
    /\ tasks[1].audio_path # tasks[2].audio_path
    /\ AllNotified(2) /\ Len(invoked) = 2

\* the notification of task t is ended by an exception in this step
NotificationFails(t) ==
    Exists(t) /\ Pc(t) = "notifying" /\ tasks'[t].pc = "errored"

\* the notify_listeners call of task t was ended by a raising listener
FailedInNotification(t) ==
    Exists(t) /\ Pc(t) = "errored" /\ tasks[t].result = "ok"

\* C19: every listener called during a notification may raise, and when one
\* does, the task ends at once in the state an inference failure leads to,
\* keeping the result of its successful inference; the raising listener is
\* the last one called for that result; the lock is released.
C19_ListenerRaises ==
    /\ [](\A t \in TaskIds :
            (Pc(t) = "notifying" /\ running = t
               /\ Len(invoked) < Len(transcription_listeners))
              => ENABLED (ListenerRaises(t) /\ tasks'[t].pc = "errored"))
    /\ [](\A t \in TaskIds :
            FailedInNotification(t) => model_lock # t /\ running # t)
    /\ [][\A t \in TaskIds :
            /\ NotificationFails(t) =>
                 /\ notifier = t
                 /\ invoked' = Append(invoked, NextListener)
                 /\ tasks'[t].result = "ok"
                 /\ model_lock' = 0
                 /\ running' = 0
            /\ (FailedInNotification(t) /\ notifier = t /\ notifier' = t)
                 => invoked' = invoked]_vars

\* the first of two registered listeners raised: the second was not called,
\* the task ended as failed with its result, and the lock is free
C19_Witness ==
    \E t \in TaskIds :
       /\ FailedInNotification(t) /\ notifier = t
       /\ Len(invoked) = 1
       /\ Len(transcription_listeners) = 2
       /\ model_lock = 0

\* this step is a showEvent or a call of _initialize_mpv
InitializationStep == mp_last' \in {"showEvent", "_initialize_mpv"}

\* C20: mpv_initialized is true exactly when player is not None, after any
\* sequence of showEvent, _initialize_mpv and closeEvent (and commands); a
\* showEvent or _initialize_mpv on an initialized player constructs nothing
\* and keeps the player; an MPV instance is only constructed while there is
\* none, and becomes the player; whenever there is no player, closeEvent
\* included, a showEvent of the visible widget with a valid window id can
\* initialize a fresh one.
C20_InitializedIffPlayer ==
    /\ [](mpv_initialized <=> player # 0)
    /\ [](player \in {0, mp_created})
    /\ []((player = 0 /\ mp_created < MaxPlayers) =>
            ENABLED (ShowEvent(TRUE, 1, TRUE) /\ player' # 0
                       /\ mpv_initialized'))
    /\ [][/\ (InitializationStep /\ mpv_initialized) =>
               /\ player' = player
               /\ mp_created' = mp_created
               /\ mpv' = mpv
          /\ mp_created' # mp_created =>
               /\ InitializationStep
               /\ player = 0
               /\ mp_created' = mp_created + 1
               /\ player' = mp_created'
               /\ mpv' = FreshMpv
          /\ mp_last' = "closeEvent" => player' = 0]_vars

\* after a closeEvent released the first player, a showEvent initialized a
\* second one
C20_Witness ==
    /\ mp_last = "showEvent"
    /\ mp_created = 2
    /\ player = 2
    /\ mpv_initialized

TypeOK ==
    /\ model \in {"None", "loaded"}
    /\ model_loaded_event \in BOOLEAN
    /\ loader \in {"loading", "loaded", "failed", "finished", "raised"}
    /\ model_lock \in 0..MaxTasks
    /\ current_audio_path \in Paths \cup {"None"}
    /\ running \in 0..MaxTasks
    /\ notifier \in 0..MaxTasks
    /\ Len(tasks) <= MaxTasks
    /\ Len(transcription_listeners) <= MaxListeners
=============================================================================
